---- MODULE Spec2Model ----
(***************************************************************************)
(* A model of pyRafters/handler_base.py: one data handler (a FrameSource,  *)
(* a FrameSink or a TableSource descendant), its lifecycle flag, its       *)
(* reconstruction parameters, its activation scopes, the two guard         *)
(* decorators and the generators made by TableSource.iter_tables.          *)
(***************************************************************************)
EXTENDS Integers, Sequences, FiniteSets, TLC

VARIABLES
    klass,             \* the handler's concrete family (its place in the hierarchy)
    active,            \* self._active
    resolution,        \* self._resolution       (Frame kinds; NoAttr otherwise)
    resolution_units,  \* self._resolution_units (Frame kinds; NoAttr otherwise)
    tables,            \* what the subclass's table_keys() enumerates (TableSource)
    gens,              \* the generator objects returned by iter_tables(), oldest first
    depth,             \* number of `with handler:` blocks currently open
    last,              \* the call made by the last step and its outcome
    hierarchy,         \* the classes known to the interpreter (discovery)
    found              \* the last call of available_handler_list and its result

vars == <<klass, active, resolution, resolution_units, tables, gens, depth, last,
          hierarchy, found>>

----------------------------------------------------------------------------
(* Bounds of the model *)

MaxTables == 2     \* longest table_keys() enumeration
MaxGens == 2       \* generators created by iter_tables() in one run
MaxNest == 2       \* deepest nesting of activation scopes
MaxFrame == 1      \* largest frame number asked of get_frame_metadata
MaxTypes == 3      \* classes in a hierarchy handed to discovery
MaxFilter == 2     \* longest filter_list

----------------------------------------------------------------------------
(* Python values.  A number is an exact rational <<numerator, denominator>>; *)
(* a value carries its Python type and its number of dimensions.             *)

Rat(n, d) == <<n, d>>

PyNone == [ty |-> "NoneType", nd |-> 0, v |-> <<>>]
NoAttr == [ty |-> "no attribute", nd |-> 0, v |-> <<>>]
Scalar(x) == [ty |-> "scalar", nd |-> 0, v |-> <<x>>]
List(s) == [ty |-> "list", nd |-> 1, v |-> s]
NoneStr == "None"
NoAttrStr == "no attribute"

(* numpy.array(x): a scalar becomes a 0-d array, a list a 1-d array, an array *)
(* is copied; None becomes a 0-d object array.                                *)
np_array(x) == [ty |-> "ndarray", nd |-> x.nd, v |-> IF x.ty = "NoneType" THEN <<>> ELSE x.v]

(* Equality of two resolution values by content (numpy.array_equal): None is *)
(* equal only to None; otherwise same shape and same elements, whatever the  *)
(* container (float, list or ndarray).                                       *)
ValEq(a, b) ==
    IF a.ty = "NoneType" \/ b.ty = "NoneType" \/ a.ty = "no attribute" \/ b.ty = "no attribute"
    THEN a.ty = b.ty
    ELSE a.nd = b.nd /\ a.v = b.v

(* Equality of two reconstruction mappings: same keys, equal values. *)
DictEq(m1, m2) ==
    /\ DOMAIN m1 = DOMAIN m2
    /\ \A k \in DOMAIN m1 :
          IF k = "resolution" THEN ValEq(m1[k], m2[k]) ELSE m1[k] = m2[k]

EmptyDict == [k \in {} |-> NoneStr]

----------------------------------------------------------------------------
(* Inputs *)

Klasses == {"FrameSource", "FrameSink", "TableSource"}
FrameKinds == {"FrameSource", "FrameSink"}

ResolutionArgs == {PyNone, Scalar(Rat(5, 2)), List(<<Rat(1, 1), Rat(5, 2)>>)}
UnitsArgs == {NoneStr, "um"}
Names == {"a", "b"}
FunArgs == {"x", "y"}
MetaKeys == {"timestamp", "instrument"}
BodyErrors == {"ValueError"}

(* Keyword mappings handed to a constructor or to __setstate__: any subset of  *)
(* the two Frame parameters, and possibly a keyword no constructor accepts.    *)
AllKwargs ==
    UNION { UNION { { [k \in (IF r = NoAttr THEN {} ELSE {"resolution"})
                          \cup (IF u = NoAttrStr THEN {} ELSE {"resolution_units"})
                          \cup (IF x THEN {"bogus"} ELSE {}) |->
                          IF k = "resolution" THEN r
                          ELSE IF k = "resolution_units" THEN u ELSE NoneStr]
                      : x \in BOOLEAN }
                    : u \in UnitsArgs \cup {NoAttrStr} }
            : r \in ResolutionArgs \cup {NoAttr} }

Without(kw, keys) == [k \in DOMAIN kw \ keys |-> kw[k]]

SeqsUpTo(S, n) == UNION { [1..m -> S] : m \in 0..n }

----------------------------------------------------------------------------
(* Outcomes of a call *)

(* A returned value or a raised exception: its kind of value (or exception  *)
(* class), what it was made of, and its content when it is a mapping.        *)
Val(tag, of) == [tag |-> tag, of |-> of, map |-> EmptyDict]
Dict(d) == [tag |-> "dict", of |-> "", map |-> d]
NoneVal == Val("None", "")

Return(v) == [kind |-> "return", val |-> v]
Raise(e) == [kind |-> "raise", val |-> Val(e, "")]

(* The arguments of a call, by parameter name *)
NoArgs == EmptyDict

(* The record kept of a step: the call, its arguments, the value of `active` *)
(* before it, its outcome, and the subclass hooks it invoked, in order.      *)
Call(op, arg, out, inv) ==
    [op |-> op, arg |-> arg, pre |-> active, kind |-> out.kind, val |-> out.val,
     invoked |-> inv]

Hook(f, a) == [f |-> f, a |-> a]

----------------------------------------------------------------------------
(* BaseDataHandler *)

(* __init__: object.__init__ rejects keywords nobody consumed, and only then *)
(* is _active cleared.  `cur` is the flag before the call.                   *)
BaseDataHandler_init_leaves_active(kwargs, cur) ==
    IF DOMAIN kwargs # {}
    THEN [exc |-> "TypeError", active |-> cur]
    ELSE [exc |-> "None", active |-> TRUE]

BaseDataHandler_init(kwargs, cur) ==
    IF DOMAIN kwargs # {}
    THEN [exc |-> "TypeError", active |-> cur]
    ELSE [exc |-> "None", active |-> FALSE]

activate_toggles(cur) == ~cur

activate(cur) == TRUE

deactivate_toggles(cur) == ~cur

(* deactivate that does nothing *)
deactivate_noop(cur) == cur

deactivate(cur) == FALSE

BaseDataHandler_kwarg_dict == EmptyDict

(* dict.update *)
update(dd, other) ==
    [k \in DOMAIN dd \cup DOMAIN other |-> IF k \in DOMAIN other THEN other[k] ELSE dd[k]]

----------------------------------------------------------------------------
(* FrameSource and FrameSink *)

FrameSource_init(kwargs, cur) ==
    LET res == IF "resolution" \in DOMAIN kwargs /\ kwargs["resolution"] # PyNone
               THEN kwargs["resolution"] ELSE Scalar(Rat(1, 1))
        units == IF "resolution_units" \in DOMAIN kwargs /\ kwargs["resolution_units"] # NoneStr
                 THEN kwargs["resolution_units"] ELSE "pix"
        up == BaseDataHandler_init(Without(kwargs, {"resolution", "resolution_units"}), cur)
    IN  [exc |-> up.exc, active |-> up.active,
         resolution |-> np_array(res), resolution_units |-> units]

(* FrameSink.__init__ that fills in its defaults only when both parameters *)
(* are missing                                                             *)
FrameSink_init_joint_defaults(kwargs, cur) ==
    LET noRes == "resolution" \notin DOMAIN kwargs \/ kwargs["resolution"] = PyNone
        noUnits == "resolution_units" \notin DOMAIN kwargs \/ kwargs["resolution_units"] = NoneStr
        res == IF noRes /\ noUnits THEN Scalar(Rat(1, 1))
               ELSE IF noRes THEN PyNone ELSE kwargs["resolution"]
        units == IF noRes /\ noUnits THEN "pix"
                 ELSE IF noUnits THEN NoneStr ELSE kwargs["resolution_units"]
        up == BaseDataHandler_init(Without(kwargs, {"resolution", "resolution_units"}), cur)
    IN  [exc |-> up.exc, active |-> up.active,
         resolution |-> np_array(res), resolution_units |-> units]

FrameSink_init(kwargs, cur) ==
    LET res == IF "resolution" \in DOMAIN kwargs /\ kwargs["resolution"] # PyNone
               THEN kwargs["resolution"] ELSE Scalar(Rat(1, 1))
        units == IF "resolution_units" \in DOMAIN kwargs /\ kwargs["resolution_units"] # NoneStr
                 THEN kwargs["resolution_units"] ELSE "pix"
        up == BaseDataHandler_init(Without(kwargs, {"resolution", "resolution_units"}), cur)
    IN  [exc |-> up.exc, active |-> up.active,
         resolution |-> np_array(res), resolution_units |-> units]

FrameSource_kwarg_dict(res, units) ==
    update(BaseDataHandler_kwarg_dict,
           [k \in {"resolution", "resolution_units"} |->
               IF k = "resolution" THEN res ELSE units])

(* FrameSink.kwarg_dict naming the units by a key the constructor lacks *)
FrameSink_kwarg_dict_misnamed(res, units) ==
    update(BaseDataHandler_kwarg_dict,
           [k \in {"resolution", "units"} |-> IF k = "resolution" THEN res ELSE units])

FrameSink_kwarg_dict(res, units) ==
    update(BaseDataHandler_kwarg_dict,
           [k \in {"resolution", "resolution_units"} |->
               IF k = "resolution" THEN res ELSE units])

FrameSink_set_resolution(res, units) ==
    [resolution |-> res, resolution_units |-> units]

(* The base metadata lookups *)
get_frame_metadata(frame_num, key) == Raise("KeyError")

get_metadata_returns_none(key) == Return(NoneVal)

get_metadata(key) == Raise("KeyError")

----------------------------------------------------------------------------
(* Dispatch on the handler's class *)

(* cls.__init__(self, **kwargs); a TableSource inherits BaseDataHandler's.   *)
(* `res` and `units` are the attributes before the call.                     *)
init(k, kwargs, cur, res, units) ==
    CASE k = "FrameSource" -> FrameSource_init(kwargs, cur)
      [] k = "FrameSink" -> FrameSink_init(kwargs, cur)
      [] OTHER ->
           LET up == BaseDataHandler_init(kwargs, cur)
           IN  [exc |-> up.exc, active |-> up.active,
                resolution |-> res, resolution_units |-> units]

kwarg_dict(k, res, units) ==
    CASE k = "FrameSource" -> FrameSource_kwarg_dict(res, units)
      [] k = "FrameSink" -> FrameSink_kwarg_dict(res, units)
      [] OTHER -> BaseDataHandler_kwarg_dict

(* __getstate__ without its check of `active` *)
getstate_unchecked(k, act, res, units) == Return(Dict(kwarg_dict(k, res, units)))

(* __getstate__ *)
getstate(k, act, res, units) ==
    IF act THEN Raise("PicklingError") ELSE Return(Dict(kwarg_dict(k, res, units)))

(* __setstate__ that assigns the fields of the mapping instead of calling *)
(* the constructor                                                        *)
setstate_assigns_fields(k, in_dict, cur, res, units) ==
    [exc |-> "None", active |-> cur,
     resolution |-> IF "resolution" \in DOMAIN in_dict THEN in_dict["resolution"] ELSE res,
     resolution_units |-> IF "resolution_units" \in DOMAIN in_dict
                          THEN in_dict["resolution_units"] ELSE units]

(* __setstate__: the constructor run again on the same object *)
setstate(k, in_dict, cur, res, units) == init(k, in_dict, cur, res, units)

(* __enter__ activates and returns the handler itself *)
enter(cur) == [active |-> activate(cur), ret |-> Val("self", "")]

(* __exit__ that deactivates only when the body completed normally *)
exit_skips_on_error(cur, exc) ==
    [active |-> IF exc = NoneStr THEN deactivate(cur) ELSE cur, ret |-> NoneVal]

(* __exit__ deactivates and returns nothing *)
exit(cur, exc) == [active |-> deactivate(cur), ret |-> NoneVal]

(* The with statement: the body's exception is swallowed only when __exit__ *)
(* returns a true value; otherwise it is raised again after __exit__.       *)
Truthy(v) == v.tag = "True"

with_outcome(exc, ret) ==
    IF exc # NoneStr /\ ~Truthy(ret) THEN Raise(exc) ELSE Return(NoneVal)

----------------------------------------------------------------------------
(* The guard decorators: whether the wrapped function is called *)

require_active_inverted(act) == IF act THEN Raise("RequireActive") ELSE Return(Val("call", ""))

require_active(act) == IF ~act THEN Raise("RequireActive") ELSE Return(Val("call", ""))

require_inactive_as_active(act) == IF ~act THEN Raise("RequireInactive") ELSE Return(Val("call", ""))

require_inactive(act) == IF act THEN Raise("RequireInactive") ELSE Return(Val("call", ""))

(* The function the decorators wrap in GuardedCall: its result for an argument *)
fun(arg) == Val("result of", arg)

----------------------------------------------------------------------------
(* TableSource *)

table_keys == tables

read_table(table_name) == Val("rec_array", table_name)

(* A generator object made from iter_tables' body.  st is "created" (body not *)
(* started), "suspended" (at the yield, having read keys[idx]) or "done".     *)
(* yielded lists the items it has produced so far.                            *)
NewGen == [st |-> "created", keys |-> <<>>, idx |-> 0, yielded |-> <<>>]

(* next(g) of a body that reads every table before it yields the first *)
gen_next_eager(g) ==
    LET keys == IF g.st = "created" THEN table_keys ELSE g.keys
        inv0 == IF g.st = "created"
                THEN <<Hook("table_keys", "")>> \o [j \in 1..Len(keys) |-> Hook("read_table", keys[j])]
                ELSE <<>>
    IN  IF g.st = "done"
        THEN [g |-> g, out |-> Raise("StopIteration"), inv |-> <<>>]
        ELSE IF g.idx < Len(keys)
        THEN [g |-> [g EXCEPT !.st = "suspended", !.keys = keys, !.idx = g.idx + 1,
                              !.yielded = Append(g.yielded, read_table(keys[g.idx + 1]))],
              out |-> Return(read_table(keys[g.idx + 1])),
              inv |-> inv0]
        ELSE [g |-> [g EXCEPT !.st = "done", !.keys = keys],
              out |-> Raise("StopIteration"), inv |-> inv0]

(* next(g) whose loop stops one key early *)
gen_next_drops_last(g) ==
    LET keys == IF g.st = "created" THEN table_keys ELSE g.keys
        inv0 == IF g.st = "created" THEN <<Hook("table_keys", "")>> ELSE <<>>
    IN  IF g.st = "done"
        THEN [g |-> g, out |-> Raise("StopIteration"), inv |-> <<>>]
        ELSE IF g.idx + 1 < Len(keys)
        THEN [g |-> [g EXCEPT !.st = "suspended", !.keys = keys, !.idx = g.idx + 1,
                              !.yielded = Append(g.yielded, read_table(keys[g.idx + 1]))],
              out |-> Return(read_table(keys[g.idx + 1])),
              inv |-> Append(inv0, Hook("read_table", keys[g.idx + 1]))]
        ELSE [g |-> [g EXCEPT !.st = "done", !.keys = keys],
              out |-> Raise("StopIteration"), inv |-> inv0]

(* next(g): run the body to its next yield or to its end.  The result is the *)
(* generator afterwards, the outcome, and the hooks invoked on the way.      *)
gen_next(g) ==
    LET keys == IF g.st = "created" THEN table_keys ELSE g.keys
        inv0 == IF g.st = "created" THEN <<Hook("table_keys", "")>> ELSE <<>>
    IN  IF g.st = "done"
        THEN [g |-> g, out |-> Raise("StopIteration"), inv |-> <<>>]
        ELSE IF g.idx < Len(keys)
        THEN [g |-> [g EXCEPT !.st = "suspended", !.keys = keys, !.idx = g.idx + 1,
                                 !.yielded = Append(g.yielded, read_table(keys[g.idx + 1]))],
              out |-> Return(read_table(keys[g.idx + 1])),
              inv |-> Append(inv0, Hook("read_table", keys[g.idx + 1]))]
        ELSE [g |-> [g EXCEPT !.st = "done", !.keys = keys],
              out |-> Raise("StopIteration"), inv |-> inv0]

----------------------------------------------------------------------------
(* Discovery.  A hierarchy is n classes numbered in their order of          *)
(* definition; bases[c] are the direct bases of class c (all defined before *)
(* it) and abstract[c] tells whether inspect.isabstract(c).                 *)

Hierarchies ==
    UNION { { [n |-> n, bases |-> b, abstract |-> a] :
                b \in { f \in [1..n -> SUBSET (1..n)] : \A c \in 1..n : f[c] \subseteq 1..(c - 1) },
                a \in [1..n -> BOOLEAN] }
            : n \in 1..MaxTypes }

NoHierarchy == [n |-> 0, bases |-> <<>>, abstract |-> <<>>]

(* filter_list: None, or the classes it holds *)
NoFilter == [given |-> FALSE, types |-> {}]
FilterOf(types) == [given |-> TRUE, types |-> types]
Filters(H) ==
    {NoFilter} \cup { FilterOf(ts) : ts \in { x \in SUBSET (1..H.n) : Cardinality(x) <= MaxFilter } }

RECURSIVE issubclass(_, _, _)
issubclass(H, c, p) == c = p \/ \E b \in H.bases[c] : issubclass(H, b, p)

isabstract(H, c) == H.abstract[c]

(* c.__subclasses__(): the direct subclasses, in their order of definition *)
RECURSIVE SubclassesFrom(_, _, _)
SubclassesFrom(H, c, t) ==
    IF t > H.n THEN <<>>
    ELSE (IF c \in H.bases[t] THEN <<t>> ELSE <<>>) \o SubclassesFrom(H, c, t + 1)

subclasses(H, c) == SubclassesFrom(H, c, 1)

(* utils.all_subclasses(c, lst): appends to lst every concrete descendant of *)
(* c, walking the hierarchy recursively through each direct subclass.        *)
RECURSIVE all_subclasses(_, _, _)
RECURSIVE AppendEach(_, _, _)
AppendEach(H, ts, lst) ==
    IF ts = <<>> THEN lst
    ELSE LET t == Head(ts)
             kept == IF isabstract(H, t) THEN lst ELSE Append(lst, t)
         IN  AppendEach(H, Tail(ts), all_subclasses(H, t, kept))

all_subclasses(H, c, lst) == AppendEach(H, subclasses(H, c), lst)

(* available_handler_list without its test of inspect.isabstract(base_handler) *)
available_handler_list_keeps_base(H, base_handler, filter_list) ==
    LET h_lst == all_subclasses(H, base_handler, <<base_handler>>)
    IN  SelectSeq(h_lst, LAMBDA h :
            ~filter_list.given \/ \E filt \in filter_list.types : issubclass(H, h, filt))

(* available_handler_list with all() where the source has any() *)
available_handler_list_and_logic(H, base_handler, filter_list) ==
    LET h0 == IF ~isabstract(H, base_handler) THEN <<base_handler>> ELSE <<>>
        h_lst == all_subclasses(H, base_handler, h0)
    IN  SelectSeq(h_lst, LAMBDA h :
            ~filter_list.given \/ \A filt \in filter_list.types : issubclass(H, h, filt))

available_handler_list(H, base_handler, filter_list) ==
    LET h0 == IF ~isabstract(H, base_handler) THEN <<base_handler>> ELSE <<>>
        h_lst == all_subclasses(H, base_handler, h0)
    IN  SelectSeq(h_lst, LAMBDA h :
            ~filter_list.given \/ \E filt \in filter_list.types : issubclass(H, h, filt))

NotCalled == [called |-> FALSE, base_handler |-> 0, filter_list |-> NoFilter, result |-> <<>>]

----------------------------------------------------------------------------
(* The state after construction: Construct(klass, **kw) with keywords the *)
(* constructor accepts; a TableSource takes none.                         *)

CtorKwargs(k) ==
    IF k \in FrameKinds THEN { kw \in AllKwargs : "bogus" \notin DOMAIN kw } ELSE {EmptyDict}

(* The mappings handed to __setstate__: for a class without the Frame        *)
(* parameters, the one it captures (empty) or one with an unknown keyword.   *)
StateDicts(k) ==
    IF k \in FrameKinds THEN AllKwargs
    ELSE { kw \in AllKwargs : DOMAIN kw \subseteq {"bogus"} }

Init ==
    \E k \in Klasses : \E kw \in CtorKwargs(k) :
    \E ts \in (IF k = "TableSource" THEN SeqsUpTo(Names, MaxTables) ELSE {<<>>}) :
        LET c == init(k, kw, FALSE, NoAttr, NoAttrStr)
        IN  /\ klass = k
            /\ active = c.active
            /\ resolution = c.resolution
            /\ resolution_units = c.resolution_units
            /\ tables = ts
            /\ gens = <<>>
            /\ depth = 0
            /\ last = [op |-> "__init__", arg |-> kw, pre |-> FALSE, kind |-> "return",
                       val |-> NoneVal, invoked |-> <<>>]
            /\ hierarchy = NoHierarchy
            /\ found = NotCalled

----------------------------------------------------------------------------
(* Operations *)

Activate ==
    /\ active' = activate(active)
    /\ last' = Call("activate", NoArgs, Return(NoneVal), <<>>)
    /\ UNCHANGED <<hierarchy, found, klass, resolution, resolution_units, tables, gens, depth>>

Deactivate ==
    /\ active' = deactivate(active)
    /\ last' = Call("deactivate", NoArgs, Return(NoneVal), <<>>)
    /\ UNCHANGED <<hierarchy, found, klass, resolution, resolution_units, tables, gens, depth>>

(* with handler as h: ... -- entering the block *)
Enter ==
    /\ depth < MaxNest
    /\ LET r == enter(active)
       IN  /\ active' = r.active
           /\ last' = Call("__enter__", NoArgs, Return(r.ret), <<>>)
    /\ depth' = depth + 1
    /\ UNCHANGED <<hierarchy, found, klass, resolution, resolution_units, tables, gens>>

(* __exit__ that counts the open blocks and deactivates only when the *)
(* outermost one is left                                               *)
Exit_nesting_aware(exc) ==
    /\ depth > 0
    /\ LET r == exit(active, exc)
       IN  /\ active' = IF depth = 1 THEN r.active ELSE active
           /\ last' = Call("__exit__", [exc_type |-> exc], with_outcome(exc, r.ret), <<>>)
    /\ depth' = depth - 1
    /\ UNCHANGED <<hierarchy, found, klass, resolution, resolution_units, tables, gens>>

(* leaving the innermost block, normally (exc is None) or by an exception of *)
(* the body; the outcome recorded is that of the whole with statement        *)
Exit(exc) ==
    /\ depth > 0
    /\ LET r == exit(active, exc)
       IN  /\ active' = r.active
           /\ last' = Call("__exit__", [exc_type |-> exc], with_outcome(exc, r.ret), <<>>)
    /\ depth' = depth - 1
    /\ UNCHANGED <<hierarchy, found, klass, resolution, resolution_units, tables, gens>>

(* __getstate__ that stores the resolution back as an array before it *)
(* captures                                                            *)
GetState_normalises ==
    /\ resolution' = IF klass \in FrameKinds THEN np_array(resolution) ELSE resolution
    /\ last' = Call("__getstate__", NoArgs,
                    getstate(klass, active, resolution', resolution_units), <<>>)
    /\ UNCHANGED <<hierarchy, found, klass, active, resolution_units, tables, gens, depth>>

(* __getstate__ that deactivates the handler it refuses to capture *)
GetState_deactivates ==
    /\ active' = FALSE
    /\ last' = Call("__getstate__", NoArgs, getstate(klass, active, resolution, resolution_units), <<>>)
    /\ UNCHANGED <<hierarchy, found, klass, resolution, resolution_units, tables, gens, depth>>

GetState ==
    /\ last' = Call("__getstate__", NoArgs, getstate(klass, active, resolution, resolution_units), <<>>)
    /\ UNCHANGED <<hierarchy, found, klass, active, resolution, resolution_units, tables, gens, depth>>

SetState(in_dict) ==
    /\ LET c == setstate(klass, in_dict, active, resolution, resolution_units)
       IN  /\ active' = c.active
           /\ resolution' = c.resolution
           /\ resolution_units' = c.resolution_units
           /\ last' = Call("__setstate__", [in_dict |-> in_dict],
                           IF c.exc = "None" THEN Return(NoneVal) ELSE Raise(c.exc), <<>>)
    /\ UNCHANGED <<hierarchy, found, klass, tables, gens, depth>>

SetResolution(res, units) ==
    /\ klass = "FrameSink"
    /\ LET r == FrameSink_set_resolution(res, units)
       IN  /\ resolution' = r.resolution
           /\ resolution_units' = r.resolution_units
    /\ last' = Call("set_resolution", [resolution |-> res, resolution_units |-> units],
                 Return(NoneVal), <<>>)
    /\ UNCHANGED <<hierarchy, found, klass, active, tables, gens, depth>>

GetFrameMetadata(frame_num, key) ==
    /\ klass = "FrameSource"
    /\ last' = Call("get_frame_metadata", [frame_num |-> frame_num, key |-> key],
                 get_frame_metadata(frame_num, key), <<>>)
    /\ UNCHANGED <<hierarchy, found, klass, active, resolution, resolution_units, tables, gens, depth>>

GetMetadata(key) ==
    /\ klass = "FrameSource"
    /\ last' = Call("get_metadata", [key |-> key], get_metadata(key), <<>>)
    /\ UNCHANGED <<hierarchy, found, klass, active, resolution, resolution_units, tables, gens, depth>>

(* A call of a method decorated with require_active / require_inactive *)
GuardedCall(op, guard, arg) ==
    /\ last' = IF guard.kind = "raise"
               THEN Call(op, [arg |-> arg], guard, <<>>)
               ELSE Call(op, [arg |-> arg], Return(fun(arg)), <<Hook("fun", arg)>>)
    /\ UNCHANGED <<hierarchy, found, klass, active, resolution, resolution_units, tables, gens, depth>>

RequireActiveCall(arg) == GuardedCall("require_active", require_active(active), arg)

RequireInactiveCall(arg) == GuardedCall("require_inactive", require_inactive(active), arg)

(* iter_tables(): the guard runs now; the body runs when the generator is *)
(* advanced with next().                                                   *)
IterTables ==
    /\ klass = "TableSource"
    /\ LET guard == require_active(active)
       IN  IF guard.kind = "raise"
           THEN /\ gens' = gens
                /\ last' = Call("iter_tables", NoArgs, guard, <<>>)
           ELSE /\ Len(gens) < MaxGens
                /\ gens' = Append(gens, NewGen)
                /\ last' = Call("iter_tables", NoArgs, Return(Val("generator", ToString(Len(gens) + 1))), <<>>)
    /\ UNCHANGED <<hierarchy, found, klass, active, resolution, resolution_units, tables, depth>>

GenNext(i) ==
    /\ i \in 1..Len(gens)
    /\ LET r == gen_next(gens[i])
       IN  /\ gens' = [gens EXCEPT ![i] = r.g]
           /\ last' = Call("next", [gen |-> i], r.out, r.inv)
    /\ UNCHANGED <<hierarchy, found, klass, active, resolution, resolution_units, tables, depth>>

Next ==
    \/ Activate
    \/ Deactivate
    \/ Enter
    \/ \E exc \in {NoneStr} \cup BodyErrors : Exit(exc)
    \/ GetState
    \/ \E in_dict \in StateDicts(klass) : SetState(in_dict)
    \/ \E res \in ResolutionArgs : \E units \in UnitsArgs : SetResolution(res, units)
    \/ \E frame_num \in 0..MaxFrame : \E key \in MetaKeys : GetFrameMetadata(frame_num, key)
    \/ \E key \in MetaKeys : GetMetadata(key)
    \/ \E arg \in FunArgs : RequireActiveCall(arg)
    \/ \E arg \in FunArgs : RequireInactiveCall(arg)
    \/ IterTables
    \/ \E i \in 1..MaxGens : GenNext(i)

Spec == Init /\ [][Next]_vars

----------------------------------------------------------------------------
(* Discovery on its own: any hierarchy within the bounds, any role type and *)
(* any filter; the handler plays no part.                                   *)

InitDiscovery ==
    /\ klass = "TableSource"
    /\ active = BaseDataHandler_init(EmptyDict, FALSE).active
    /\ resolution = NoAttr
    /\ resolution_units = NoAttrStr
    /\ tables = <<>>
    /\ gens = <<>>
    /\ depth = 0
    /\ last = [op |-> "__init__", arg |-> EmptyDict, pre |-> FALSE, kind |-> "return",
               val |-> NoneVal, invoked |-> <<>>]
    /\ hierarchy \in Hierarchies
    /\ found = NotCalled

AvailableHandlerList(base_handler, filter_list) ==
    /\ found' = [called |-> TRUE, base_handler |-> base_handler, filter_list |-> filter_list,
                 result |-> available_handler_list(hierarchy, base_handler, filter_list)]
    /\ UNCHANGED <<hierarchy, klass, active, resolution, resolution_units, tables, gens,
                   depth, last>>

NextDiscovery ==
    \E base_handler \in 1..hierarchy.n : \E filter_list \in Filters(hierarchy) :
        AvailableHandlerList(base_handler, filter_list)

SpecDiscovery == InitDiscovery /\ [][NextDiscovery]_vars

----------------------------------------------------------------------------
(* Properties *)

hvars == <<klass, active, resolution, resolution_units, tables, gens, depth>>

\* C1: right after construction, before any other operation, a handler of
\* every class is inactive.
C1_InactiveAfterConstruction == last.op = "__init__" => ~active

C1_Witness == last.op = "__init__" /\ klass = "FrameSink" /\ ~active

\* C2 as stated: `active` rises only in an activate call (direct or by scope
\* entry) and falls only in a deactivate call (direct or by scope exit).
C2_OnlyActivateDeactivate ==
    [][ /\ (~active /\ active') => last'.op \in {"activate", "__enter__"}
        /\ (active /\ ~active') => last'.op \in {"deactivate", "__exit__"} ]_vars

\* C2 amended: `active` rises only in an activate call (direct or by scope
\* entry) and falls only in a deactivate call (direct or by scope exit) or in
\* a __setstate__ call, which runs the constructor again.
C2_OnlyActivateDeactivateSetstate ==
    [][ /\ (~active /\ active') => last'.op \in {"activate", "__enter__"}
        /\ (active /\ ~active') => last'.op \in {"deactivate", "__exit__", "__setstate__"} ]_vars

C2_Witness == last.op = "__setstate__" /\ last.pre /\ ~active /\ last.kind = "return"

\* C3: __getstate__ on an active handler raises PicklingError and returns no
\* mapping; on an inactive handler it returns exactly kwarg_dict.
C3_CaptureOnlyWhenInactive ==
    last.op = "__getstate__" =>
        IF last.pre
        THEN last.kind = "raise" /\ last.val.tag = "PicklingError"
        ELSE last.kind = "return" /\ last.val = Dict(kwarg_dict(klass, resolution, resolution_units))

C3_Witness == last.op = "__getstate__" /\ last.pre /\ active /\ last.kind = "raise"

\* C4: for every inactive Frame-kind handler, the mapping captured from it,
\* handed to the constructor, gives a handler whose captured mapping is equal
\* to the first (same keys, equal resolution and resolution_units).
C4_RoundTrip ==
    (klass \in FrameKinds /\ ~active) =>
        LET m == getstate(klass, active, resolution, resolution_units)
            h2 == init(klass, m.val.map, FALSE, NoAttr, NoAttrStr)
            m2 == getstate(klass, h2.active, h2.resolution, h2.resolution_units)
        IN  /\ m.kind = "return"
            /\ h2.exc = "None"
            /\ m2.kind = "return"
            /\ DictEq(m2.val.map, m.val.map)

\* C5: scope entry activates and returns the handler itself; scope exit
\* deactivates on the normal and on the exceptional path, and the body's
\* exception is raised again to the caller.
C5_ScopedActivation ==
    /\ last.op = "__enter__" => (active /\ last.kind = "return" /\ last.val.tag = "self")
    /\ last.op = "__exit__" =>
         /\ ~active
         /\ IF last.arg.exc_type = NoneStr THEN last.kind = "return"
            ELSE last.kind = "raise" /\ last.val.tag = last.arg.exc_type

C5_Witness ==
    last.op = "__exit__" /\ last.arg.exc_type = "ValueError" /\ last.pre /\ ~active

\* C6: a require_active method called on an inactive handler raises
\* RequireActive, does not call the wrapped function and changes nothing; on
\* an active handler it calls the wrapped function once, with the caller's
\* argument, and returns its result.
C6_RequireActive ==
    [][ last'.op = "require_active" =>
          IF ~active
          THEN /\ last'.kind = "raise" /\ last'.val.tag = "RequireActive"
               /\ last'.invoked = <<>>
               /\ UNCHANGED hvars
          ELSE /\ last'.kind = "return" /\ last'.val = fun(last'.arg.arg)
               /\ last'.invoked = <<Hook("fun", last'.arg.arg)>> ]_vars

C6_Witness ==
    /\ last.op = "require_active" /\ ~last.pre /\ last.kind = "raise"
    /\ last.arg.arg = "y"

C8_IterTablesYieldsEveryTable ==
    /\ \A i \in 1..Len(gens) :
          /\ Len(gens[i].yielded) <= Len(table_keys)
          /\ \A j \in 1..Len(gens[i].yielded) : gens[i].yielded[j] = read_table(table_keys[j])
          /\ gens[i].st = "done" => Len(gens[i].yielded) = Len(table_keys)
    /\ (last.op = "next" /\ last.kind = "return") =>
          /\ gens[last.arg.gen].yielded # <<>>
          /\ last.val = gens[last.arg.gen].yielded[Len(gens[last.arg.gen].yielded)]

C8_Witness ==
    /\ tables = <<"b", "a">>
    /\ \E i \in 1..Len(gens) : gens[i].st = "done" /\ Len(gens[i].yielded) = 2
    /\ last.op = "next" /\ last.pre /\ active

\* C9: on behalf of iter_tables, table_keys() and read_table() are never
\* invoked while the handler is inactive: iter_tables() on an inactive handler
\* raises RequireActive, and a generator produces no item once the handler
\* has been deactivated.
C9_TablesReadOnlyWhileActive ==
    /\ (last.op = "iter_tables" /\ ~last.pre) =>
          (last.kind = "raise" /\ last.val.tag = "RequireActive")
    /\ (last.op \in {"iter_tables", "next"} /\ ~last.pre) =>
          (last.invoked = <<>> /\ last.kind = "raise")

\* C10: get_frame_metadata and get_metadata of FrameSource raise KeyError for
\* every frame number, key and lifecycle state, and change nothing.
C10_MetadataLookupsRaise ==
    [][ last'.op \in {"get_frame_metadata", "get_metadata"} =>
          /\ last'.kind = "raise" /\ last'.val.tag = "KeyError"
          /\ UNCHANGED hvars ]_vars

C10_Witness ==
    /\ last.op = "get_metadata" /\ last.pre /\ active
    /\ last.kind = "raise" /\ last.val.tag = "KeyError"

----------------------------------------------------------------------------
(* Properties of discovery *)

Elems(s) == { s[i] : i \in DOMAIN s }

(* The classes derived, directly or not, from c *)
Descendants(H, c) == { t \in 1..H.n : t # c /\ issubclass(H, t, c) }

HeadOf(H, c) == IF isabstract(H, c) THEN <<>> ELSE <<c>>

\* C11 as stated: without a filter the result is the role type itself exactly
\* when it is concrete, followed by every transitive descendant of the role
\* type, and every type returned is concrete.
C11_EveryDescendant ==
    (found.called /\ ~found.filter_list.given) =>
        LET b == found.base_handler
            r == found.result
            hd == HeadOf(hierarchy, b)
        IN  /\ Len(r) >= Len(hd)
            /\ SubSeq(r, 1, Len(hd)) = hd
            /\ Elems(SubSeq(r, Len(hd) + 1, Len(r))) = Descendants(hierarchy, b)
            /\ \A t \in Elems(r) : ~isabstract(hierarchy, t)

\* C11 amended: without a filter the result is the role type itself exactly
\* when it is concrete, followed by every transitive concrete descendant of
\* the role type (and no other type), so every type returned is concrete.
C11_EveryConcreteDescendant ==
    (found.called /\ ~found.filter_list.given) =>
        LET b == found.base_handler
            r == found.result
            hd == HeadOf(hierarchy, b)
        IN  /\ Len(r) >= Len(hd)
            /\ SubSeq(r, 1, Len(hd)) = hd
            /\ Elems(SubSeq(r, Len(hd) + 1, Len(r))) =
                  { t \in Descendants(hierarchy, b) : ~isabstract(hierarchy, t) }
            /\ \A t \in Elems(r) : ~isabstract(hierarchy, t)

C11_Witness ==
    /\ found.called /\ ~found.filter_list.given
    /\ found.base_handler = 1
    /\ isabstract(hierarchy, 1)
    /\ \E t \in Descendants(hierarchy, 1) : isabstract(hierarchy, t)
    /\ found.result # <<>>

\* C12: with a filter list the result is exactly the elements of the
\* unfiltered result that are a subclass of at least one type of the list, in
\* the same order; an empty list gives an empty result.
C12_FilterKeepsSubclassesOfAny ==
    (found.called /\ found.filter_list.given) =>
        LET unfiltered == available_handler_list(hierarchy, found.base_handler, NoFilter)
        IN  /\ found.result =
                  SelectSeq(unfiltered, LAMBDA h :
                      \E filt \in found.filter_list.types : issubclass(hierarchy, h, filt))
            /\ found.filter_list.types = {} => found.result = <<>>

\* the scenario: a role with two concrete descendants, 2 and 3, and a filter
\* holding a type only 2 implements
C12_Witness ==
    /\ hierarchy.n = 3
    /\ hierarchy.abstract = <<TRUE, FALSE, FALSE>>
    /\ hierarchy.bases = <<{}, {1}, {1}>>
    /\ found.called /\ found.base_handler = 1
    /\ found.filter_list = FilterOf({2})
    /\ found.result = <<2>>

----------------------------------------------------------------------------
(* Properties of the lifecycle and of reconstruction, continued *)

\* C13: from any lifecycle state, activate() followed by deactivate() leaves
\* the handler inactive.
C13_ActivateThenDeactivate ==
    [][ (last.op = "activate" /\ last'.op = "deactivate") => ~active' ]_vars

C13_Witness == last.op = "deactivate" /\ last.pre /\ ~active /\ depth = 0

\* C14: __setstate__(m) runs the constructor again: after it, whatever the
\* handler's state before, the active flag, resolution, resolution_units and
\* captured mapping are those of a handler freshly constructed with m; it is
\* inactive and the keys absent from m have the constructor's defaults.  A
\* mapping the constructor rejects is rejected by __setstate__ as well.
C14_RestoreIsConstruct ==
    last.op = "__setstate__" =>
        LET m == last.arg.in_dict
            fresh == init(klass, m, FALSE, NoAttr, NoAttrStr)
        IN  IF fresh.exc = "None"
            THEN /\ last.kind = "return"
                 /\ ~active /\ active = fresh.active
                 /\ resolution = fresh.resolution
                 /\ resolution_units = fresh.resolution_units
                 /\ getstate(klass, active, resolution, resolution_units) =
                       getstate(klass, fresh.active, fresh.resolution, fresh.resolution_units)
                 /\ (klass \in FrameKinds /\ "resolution" \notin DOMAIN m) =>
                       resolution = np_array(Scalar(Rat(1, 1)))
                 /\ (klass \in FrameKinds /\ "resolution_units" \notin DOMAIN m) =>
                       resolution_units = "pix"
            ELSE last.kind = "raise" /\ last.val.tag = fresh.exc

C14_Witness ==
    /\ last.op = "__setstate__" /\ last.pre /\ last.kind = "return"
    /\ klass = "FrameSink"
    /\ DOMAIN last.arg.in_dict = {"resolution_units"}
    /\ ~active

(* The keywords the constructor ran with in the last step *)
CtorKw == IF last.op = "__init__" THEN last.arg ELSE last.arg.in_dict

\* C15: a Frame-kind handler constructed without resolution, or with None,
\* has resolution equal to the scalar 1; constructed without resolution_units,
\* or with None, it has "pix"; each default applies whatever the other
\* parameter is, and a value that was supplied is kept.
C15_ConstructorDefaults ==
    (klass \in FrameKinds /\ last.op \in {"__init__", "__setstate__"} /\ last.kind = "return") =>
        /\ IF "resolution" \notin DOMAIN CtorKw \/ CtorKw["resolution"] = PyNone
           THEN ValEq(resolution, Scalar(Rat(1, 1)))
           ELSE ValEq(resolution, CtorKw["resolution"])
        /\ IF "resolution_units" \notin DOMAIN CtorKw \/ CtorKw["resolution_units"] = NoneStr
           THEN resolution_units = "pix"
           ELSE resolution_units = CtorKw["resolution_units"]

C15_Witness ==
    /\ klass = "FrameSink" /\ last.op = "__init__"
    /\ DOMAIN last.arg = {"resolution", "resolution_units"}
    /\ last.arg["resolution"] = PyNone /\ last.arg["resolution_units"] = "um"
    /\ ValEq(resolution, Scalar(Rat(1, 1))) /\ resolution_units = "um"

\* C16 as stated: resolution and resolution_units change in no step but a
\* FrameSink.set_resolution call.
C16_OnlySetResolution ==
    [][ (resolution' # resolution \/ resolution_units' # resolution_units) =>
            (last'.op = "set_resolution" /\ klass = "FrameSink") ]_vars

\* C16 amended: resolution and resolution_units change in no step but a
\* FrameSink.set_resolution call or a __setstate__ call (which runs the
\* constructor again, on a FrameSource as on a FrameSink).
C16_OnlySetResolutionOrSetstate ==
    [][ (resolution' # resolution \/ resolution_units' # resolution_units) =>
            \/ last'.op = "set_resolution" /\ klass = "FrameSink"
            \/ last'.op = "__setstate__" /\ klass \in FrameKinds ]_vars

C16_Witness ==
    /\ klass = "FrameSource" /\ last.op = "__setstate__" /\ last.kind = "return"
    /\ "resolution" \in DOMAIN last.arg.in_dict
    /\ resolution = np_array(List(<<Rat(1, 1), Rat(5, 2)>>))

\* C17: activate() always leaves the handler active and deactivate() always
\* leaves it inactive, whatever the state before (so repeating either changes
\* nothing, and one deactivate() undoes any number of activate() calls);
\* neither fails.
C17_Idempotent ==
    /\ last.op = "activate" => (active /\ last.kind = "return")
    /\ last.op = "deactivate" => (~active /\ last.kind = "return")

C17_Witness == last.op = "deactivate" /\ ~last.pre /\ ~active

\* C18: capturing state, whether it succeeds or fails, changes nothing of the
\* handler; a capture right after a successful capture returns an equal
\* mapping.
C18_CaptureChangesNothing ==
    [][ last'.op = "__getstate__" =>
          /\ UNCHANGED hvars
          /\ (last.op = "__getstate__" /\ last.kind = "return") =>
                (last'.kind = "return" /\ DictEq(last'.val.map, last.val.map)) ]_vars

C18_Witness ==
    /\ last.op = "__getstate__" /\ last.kind = "raise" /\ last.pre /\ active
    /\ klass = "FrameSink" /\ depth = 1

(* The read_table calls among the hooks a step invoked *)
Reads(inv) == SelectSeq(inv, LAMBDA h : h.f = "read_table")

\* C19: iter_tables() reads nothing when called and returns a new generator
\* that starts at the first name; each next() on a generator reads exactly
\* the one table it yields, the name after those it has yielded already, and
\* leaves every other generator where it was.
C19_LazyAndRestartable ==
    [][ /\ last'.op = "iter_tables" =>
              /\ last'.invoked = <<>>
              /\ gens' = IF last'.kind = "return" THEN Append(gens, NewGen) ELSE gens
        /\ last'.op = "next" =>
              LET i == last'.arg.gen
                  n == Len(gens[i].yielded)
              IN  /\ Len(gens') = Len(gens)
                  /\ \A j \in 1..Len(gens) : j # i => gens'[j] = gens[j]
                  /\ IF last'.kind = "return"
                     THEN /\ n < Len(table_keys)
                          /\ Reads(last'.invoked) = <<Hook("read_table", table_keys[n + 1])>>
                          /\ Len(gens'[i].yielded) = n + 1
                     ELSE /\ Reads(last'.invoked) = <<>>
                          /\ gens'[i].yielded = gens[i].yielded ]_vars

C19_Witness ==
    /\ Len(gens) = 2 /\ Len(tables) = 2
    /\ gens[1].st = "suspended" /\ Len(gens[1].yielded) = 2
    /\ gens[2].st = "suspended" /\ Len(gens[2].yielded) = 1
    /\ last.op = "next" /\ last.arg.gen = 2 /\ last.kind = "return"

\* C20: the reconstruction mapping of a Frame-kind handler holds every
\* key/value of the parent's mapping and, besides, exactly 'resolution' and
\* 'resolution_units' with the handler's current values; the constructor of
\* its class accepts every key.
C20_KwargDictExtendsParent ==
    klass \in FrameKinds =>
        LET d == kwarg_dict(klass, resolution, resolution_units)
            parent == BaseDataHandler_kwarg_dict
        IN  /\ DOMAIN d = DOMAIN parent \cup {"resolution", "resolution_units"}
            /\ \A k \in DOMAIN parent \ {"resolution", "resolution_units"} : d[k] = parent[k]
            /\ d["resolution"] = resolution
            /\ d["resolution_units"] = resolution_units
            /\ init(klass, d, FALSE, NoAttr, NoAttrStr).exc = "None"

C20_Witness ==
    /\ klass = "FrameSink" /\ last.op = "__getstate__" /\ last.kind = "return"
    /\ resolution = Scalar(Rat(5, 2)) /\ resolution_units = "um"
    /\ DOMAIN last.val.map = {"resolution", "resolution_units"}

\* C21: activation scopes are not counted.  When the inner of two nested
\* scopes of one handler is left (an __exit__ after which a block is still
\* open) the handler is inactive, a require_active-guarded call would raise and
\* a capture would return the mapping.  From an inactive handler inside an open
\* block every step other than activate and scope entry leaves it inactive:
\* guarded calls (iter_tables too) raise RequireActive without calling the
\* wrapped function, __getstate__ returns kwarg_dict, and after the exit of the
\* outermost block the handler is inactive.
C21_ScopesNotNestingAware ==
    /\ (last.op = "__exit__" /\ depth >= 1) =>
          /\ ~active
          /\ require_active(active) = Raise("RequireActive")
          /\ getstate(klass, active, resolution, resolution_units)
                = Return(Dict(kwarg_dict(klass, resolution, resolution_units)))
    /\ ((depth >= 1 \/ last.op = "__exit__") /\ ~last.pre
          /\ last.op \notin {"activate", "__enter__"}) =>
          /\ ~active
          /\ last.op \in {"require_active", "iter_tables"} =>
                (last.kind = "raise" /\ last.val.tag = "RequireActive" /\ last.invoked = <<>>)
          /\ last.op = "__getstate__" =>
                (last.kind = "return"
                 /\ last.val = Dict(kwarg_dict(klass, resolution, resolution_units)))
    /\ (last.op = "__exit__" /\ depth = 0) => ~active

\* the inner of two nested scopes has just been left: the handler was active
\* in the inner body and is inactive in the outer one, which is still open
C21_Witness ==
    /\ last.op = "__exit__" /\ depth = 1 /\ last.pre /\ ~active
    /\ require_active(active).kind = "raise"
    /\ getstate(klass, active, resolution, resolution_units).kind = "return"

====
